---- MODULE Spec2Model ----
(***************************************************************************)
(* Model of markov_model.py: the prefix-tree Markov model (Node,           *)
(* MarkovModelTree), the dense-table Markov model (MarkovModelTables) and  *)
(* the trajectory generator of the __main__ block.                         *)
(*                                                                         *)
(* Strings are sequences of character codes (ord values).  A Node is       *)
(* identified by the path of letters leading to it from the root; the two  *)
(* dicts of a Node keep their insertion order, as Python dicts do.         *)
(***************************************************************************)
EXTENDS Integers, Sequences, FiniteSets, TLC

\* ---------------------------------------------------------------- bounds
MaxLen == 3      \* longest enumerated corpus
NumSyms == 2     \* distinct characters the enumerated corpora draw from
MaxK == 2        \* largest enumerated order (0 is the order < 1 case)
MaxT == 3        \* largest enumerated trajectory length

\* ------------------------------------------------------ program constants
ALPHABET == 128  \* [0] * 128: the successor-count array of the table model

\* the enumerated corpora are written with 'a', 'b', ... (ord('a') = 97)
Symbols == 97 .. (96 + NumSyms)
Codes == 0 .. (ALPHABET - 1)

\* a call that raised (KeyError, AttributeError, IndexError, TypeError)
ERROR == 0 - 1
\* Python's None where a Node reference is expected
None == <<0 - 1>>
\* the walk raised before reaching its end (a method called on None)
Raised == <<0 - 2>>
RootPath == <<>>

Min(a, b) == IF a < b THEN a ELSE b

RECURSIVE SeqsUpTo(_, _)
SeqsUpTo(S, n) ==
  IF n = 0 THEN {<<>>}
  ELSE LET shorter == SeqsUpTo(S, n - 1)
       IN shorter \cup {Append(s, x) : s \in {q \in shorter : Len(q) = n - 1}, x \in S}

SeqsOfLen(S, n) == {s \in SeqsUpTo(S, n) : Len(s) = n}

\* The corpora of the two worked examples: "abcde" and "abababab".
Abcde == <<97, 98, 99, 100, 101>>
Abababab == <<97, 98, 97, 98, 97, 98, 97, 98>>
Ababab == <<97, 98, 97, 98, 97, 98>>

\* (corpus, order, trajectory length) of every enumerated run
Inputs ==
  {<<c, k, t>> : c \in SeqsUpTo(Symbols, MaxLen), k \in 0 .. MaxK, t \in 0 .. MaxT}
    \cup {<<Abababab, 1, 6>>, <<Abcde, 3, 4>>}

\* ------------------------------------------------------ Python primitives
\* text[a:b] for 0 <= a, 0 <= b
Slice(text, a, b) == SubSeq(text, a + 1, Min(b, Len(text)))

\* index (1-based) of key in an insertion-ordered key list, 0 when absent
RECURSIVE IndexOf(_, _)
IndexOf(keys, key) ==
  IF keys = <<>> THEN 0
  ELSE IF keys[Len(keys)] = key /\ IndexOf(SubSeq(keys, 1, Len(keys) - 1), key) = 0
       THEN Len(keys)
       ELSE IndexOf(SubSeq(keys, 1, Len(keys) - 1), key)

RECURSIVE SumSeq(_)
SumSeq(s) == IF s = <<>> THEN 0 ELSE s[1] + SumSeq(Tail(s))

\* sum(f[c] for c in range(lo, hi + 1))
RECURSIVE SumRange(_, _, _)
SumRange(f, lo, hi) ==
  IF lo > hi THEN 0
  ELSE IF lo = hi THEN f[lo]
  ELSE LET mid == (lo + hi) \div 2
       IN SumRange(f, lo, mid) + SumRange(f, mid + 1, hi)

\* ------------------------------------------------------------------ state
VARIABLES
  txt,            \* the corpus handed to both constructors
  order,          \* args.order
  trajectory,     \* args.trajectory
  pc,             \* position of the run
  tree,           \* MarkovModelTree: path of a Node |-> the Node
  left_idx,       \* loop variable of the constructor being run
  ci,             \* 1-based position of ch in k_gram (tree constructor)
  node,           \* the tree constructor's current Node (its path)
  k_gram_count,   \* MarkovModelTables._k_gram_count
  k_gram_letter,  \* MarkovModelTables._k_gram_letter
  k_gram_keys,    \* insertion order of the keys of _k_gram_letter
  state,          \* the generator's current k-gram
  tj,             \* the trajectory so far
  iter,           \* iterations of the generator loop done
  output,         \* what print(tj) wrote (<<>> before: see printed)
  printed,        \* whether print(tj) ran
  ret             \* the last query made on the built models and its result

vars == <<txt, order, trajectory, pc, tree, left_idx, ci, node, k_gram_count,
          k_gram_letter, k_gram_keys, state, tj, iter, output, printed, ret>>

models == <<tree, k_gram_count, k_gram_letter, k_gram_keys>>
inputs == <<txt, order, trajectory>>
genvars == <<state, tj, iter, output, printed>>

\* ------------------------------------------------------------------- Node
NewNode(letter) == [letter |-> letter, neighbours |-> <<>>, letters_count |-> <<>>]

CountKeys(n) == [i \in 1 .. Len(n.letters_count) |-> n.letters_count[i][1]]
CountValues(n) == [i \in 1 .. Len(n.letters_count) |-> n.letters_count[i][2]]

\* add_son with the increment inside the "if": an existing child is not counted
AddSonCreateOnly(t, p, letter) ==
  LET n == t[p]
      absent == IndexOf(n.neighbours, letter) = 0
  IN IF absent
     THEN [((Append(p, letter) :> NewNode(letter)) @@ t) EXCEPT ![p] =
            [n EXCEPT !.neighbours = Append(n.neighbours, letter),
                      !.letters_count = Append(n.letters_count, <<letter, 1>>)]]
     ELSE t

\* Node.add_son mutating the tree t at Node p; the returned Node is Append(p, letter)
AddSon(t, p, letter) ==
  LET n == t[p]
      absent == IndexOf(n.neighbours, letter) = 0
      nb == IF absent THEN Append(n.neighbours, letter) ELSE n.neighbours
      lc0 == IF absent THEN Append(n.letters_count, <<letter, 0>>) ELSE n.letters_count
      at == IndexOf([i \in 1 .. Len(lc0) |-> lc0[i][1]], letter)
      lc1 == [lc0 EXCEPT ![at] = <<letter, lc0[at][2] + 1>>]
      t1 == IF absent THEN (Append(p, letter) :> NewNode(letter)) @@ t ELSE t
  IN [t1 EXCEPT ![p] = [n EXCEPT !.neighbours = nb, !.letters_count = lc1]]

\* Node.get_son: the child's path, or None (the implicit return)
GetSon(t, p, letter) ==
  IF IndexOf(t[p].neighbours, letter) # 0 THEN Append(p, letter) ELSE None

\* Node.get_letter_count
GetLetterCount(t, p, letter) ==
  LET at == IndexOf(CountKeys(t[p]), letter)
  IN IF at # 0 THEN t[p].letters_count[at][2] ELSE 0

\* ------------------------------------------------------ window extraction
\* the window cut without the wrap to the start of the corpus
WindowNoWrap(text, w, left) == Slice(text, left, left + w)

\* the k_gram both constructors cut at left_idx for a window of w characters
Window(text, w, left) ==
  LET right_idx == left + w
  IN IF right_idx < Len(text)
     THEN Slice(text, left, right_idx)
     ELSE Slice(text, left, Len(text)) \o Slice(text, 0, right_idx % Len(text))

\* ------------------------------------------------------------------- Init
Init ==
  /\ \E inp \in Inputs : txt = inp[1] /\ order = inp[2] /\ trajectory = inp[3]
  /\ pc = "tree"
  /\ tree = (RootPath :> NewNode(0 - 1))
  /\ left_idx = 0
  /\ ci = 1
  /\ node = RootPath
  /\ k_gram_count = <<>>
  /\ k_gram_letter = <<>>
  /\ k_gram_keys = <<>>
  /\ state = <<>>
  /\ tj = <<>>
  /\ iter = 0
  /\ output = <<>>
  /\ printed = FALSE
  /\ ret = [op |-> "none", k_gram |-> <<>>, letter |-> 0 - 1, val |-> 0, lines |-> <<>>]

\* ------------------------------------------- MarkovModelTree.__init__
\* k = k+1; the k_gram cut at left_idx
TreeKGram == Window(txt, order + 1, left_idx)

\* one add_son call of "for ch in k_gram: node = node.add_son(ch)"
TreeAddSon ==
  /\ pc = "tree"
  /\ left_idx < Len(txt)
  /\ LET k_gram == TreeKGram
         ch == k_gram[ci]
     IN /\ tree' = AddSon(tree, node, ch)
        /\ IF ci < Len(k_gram)
           THEN /\ node' = Append(node, ch)
                /\ ci' = ci + 1
                /\ UNCHANGED left_idx
           ELSE /\ node' = RootPath
                /\ ci' = 1
                /\ left_idx' = left_idx + 1
  /\ UNCHANGED <<inputs, pc, k_gram_count, k_gram_letter, k_gram_keys, genvars, ret>>

\* the outer loop is exhausted: mm is built, MarkovModelTables(...) starts
TreeDone ==
  /\ pc = "tree"
  /\ left_idx >= Len(txt)
  /\ pc' = "tables"
  /\ left_idx' = 0
  /\ UNCHANGED <<inputs, tree, ci, node, k_gram_count, k_gram_letter, k_gram_keys,
                 genvars, ret>>

\* ------------------------------------------- MarkovModelTables.__init__
\* the k_gram cut at left_idx
TablesKGram == Window(txt, order, left_idx)

\* ord(text[right_idx % text_len])
TablesSucc == txt[((left_idx + order) % Len(txt)) + 1]

\* one iteration of "for left_idx in range(text_len)"
TablesStep ==
  /\ pc = "tables"
  /\ left_idx < Len(txt)
  /\ LET k_gram == TablesKGram
         cnt0 == IF k_gram \in DOMAIN k_gram_count
                 THEN k_gram_count ELSE (k_gram :> 0) @@ k_gram_count
         fresh == k_gram \notin DOMAIN k_gram_letter
         let0 == IF fresh
                 THEN (k_gram :> [i \in Codes |-> 0]) @@ k_gram_letter
                 ELSE k_gram_letter
         succ == TablesSucc
     IN /\ k_gram_count' = [cnt0 EXCEPT ![k_gram] = @ + 1]
        /\ k_gram_letter' = [let0 EXCEPT ![k_gram][succ] = @ + 1]
        /\ k_gram_keys' = IF fresh THEN Append(k_gram_keys, k_gram) ELSE k_gram_keys
  /\ left_idx' = left_idx + 1
  /\ UNCHANGED <<inputs, pc, tree, ci, node, genvars, ret>>

\* the loop is exhausted: mmt is built
TablesDone ==
  /\ pc = "tables"
  /\ left_idx >= Len(txt)
  /\ pc' = "built"
  /\ UNCHANGED <<inputs, tree, left_idx, ci, node, k_gram_count, k_gram_letter,
                 k_gram_keys, genvars, ret>>

\* --------------------------------------------------- stdrandom.discrete
\* the indices (0-based) discrete(a) can return: those of positive weight
Discrete(a) == {i \in 0 .. (Len(a) - 1) : a[i + 1] > 0}

\* ------------------------------------------------ MarkovModelTree queries
\* "for ch in s: node = node.get_son(ch)" from Node p: the Node reached, None
\* when the last get_son found no child, Raised when get_son was called on None
RECURSIVE Walk(_, _, _)
Walk(t, p, s) ==
  IF s = <<>> THEN p
  ELSE IF p = None THEN Raised
  ELSE Walk(t, GetSon(t, p, s[1]), Tail(s))

\* MarkovModelTree.k_freq
Tree_k_freq(t, k_gram) ==
  LET n == Walk(t, RootPath, Slice(k_gram, 0, Len(k_gram) - 1))
  IN IF k_gram = <<>> \/ n = None \/ n = Raised
     THEN ERROR
     ELSE GetLetterCount(t, n, k_gram[Len(k_gram)])

\* MarkovModelTree.k_follow_freq
Tree_k_follow_freq(t, k_gram, letter) ==
  LET n == Walk(t, RootPath, k_gram)
  IN IF n = None \/ n = Raised THEN ERROR ELSE GetLetterCount(t, n, letter)

\* next_char returning chr(idx), as the table model does, in the tree model
Tree_next_char_chr(t, k_gram) ==
  LET n == Walk(t, RootPath, k_gram)
  IN IF n = None \/ n = Raised THEN {ERROR}
     ELSE IF Discrete(CountValues(t[n])) = {} THEN {ERROR}
     ELSE Discrete(CountValues(t[n]))

\* MarkovModelTree.next_char: the characters it can return, {ERROR} when it raises
Tree_next_char(t, k_gram) ==
  LET n == Walk(t, RootPath, k_gram)
  IN IF n = None \/ n = Raised THEN {ERROR}
     ELSE IF Discrete(CountValues(t[n])) = {} THEN {ERROR}
     ELSE {CountKeys(t[n])[idx + 1] : idx \in Discrete(CountValues(t[n]))}

\* ---------------------------------------------- MarkovModelTables queries
\* MarkovModelTables.k_freq
Tables_k_freq(cnt, k_gram) ==
  IF k_gram \in DOMAIN cnt THEN cnt[k_gram] ELSE ERROR

\* MarkovModelTables.k_follow_freq
Tables_k_follow_freq(let, k_gram, letter) ==
  IF k_gram \in DOMAIN let THEN let[k_gram][letter] ELSE ERROR

\* MarkovModelTables.next_char: the characters it can return, {ERROR} when it raises
Tables_next_char(let, k_gram) ==
  IF k_gram \notin DOMAIN let THEN {ERROR}
  ELSE LET a == [i \in 1 .. ALPHABET |-> let[k_gram][i - 1]]
       IN IF Discrete(a) = {} THEN {ERROR} ELSE Discrete(a)

\* ---------------------------------------------------------- to_string
\* a line "path: k v k v ..." is <<path, <<k, v>>, <<k, v>>, ...>>; the empty
\* string is <<>>
Line(path, items) == <<path>> \o items

\* MarkovModelTree._stringify: the lines appended to result, in order
RECURSIVE Stringify(_, _, _), StringifySons(_, _, _, _)
Stringify(t, level, p) ==
  IF level = 0 THEN <<Line(p, t[p].letters_count)>>
  ELSE StringifySons(t, level, p, t[p].neighbours)
StringifySons(t, level, p, sons) ==
  IF sons = <<>> THEN <<>>
  ELSE Stringify(t, level - 1, Append(p, sons[1])) \o StringifySons(t, level, p, Tail(sons))

\* str < str on character codes
RECURSIVE StrLess(_, _)
StrLess(a, b) ==
  IF b = <<>> THEN FALSE
  ELSE IF a = <<>> THEN TRUE
  ELSE IF a[1] # b[1] THEN a[1] < b[1]
  ELSE StrLess(Tail(a), Tail(b))

\* the lines of one to_string compare by their paths: they all have the order's
\* length and differ, and the empty string sorts before all of them
LineLess(x, y) ==
  IF y = <<>> THEN FALSE ELSE IF x = <<>> THEN TRUE ELSE StrLess(x[1], y[1])

RECURSIVE Insert(_, _)
Insert(sorted, x) ==
  IF sorted = <<>> THEN <<x>>
  ELSE IF LineLess(x, sorted[1]) THEN <<x>> \o sorted
  ELSE <<sorted[1]>> \o Insert(Tail(sorted), x)

RECURSIVE Sorted(_)
Sorted(ls) == IF ls = <<>> THEN <<>> ELSE Insert(Sorted(Tail(ls)), ls[1])

\* MarkovModelTree.to_string: result.string ends with "\n", so the split yields
\* the lines and one empty string
Tree_to_string(t, k) == Sorted(Stringify(t, k, RootPath) \o <<<<>>>>)

\* [f'{chr(i)} {v[i]}' for i in range(128) if v[i] != 0]
NonZero(v) ==
  LET all == [i \in 1 .. ALPHABET |-> <<i - 1, v[i - 1]>>]
      Kept(x) == x[2] # 0
  IN SelectSeq(all, Kept)

\* MarkovModelTables.to_string
Tables_to_string(let, keys) ==
  [i \in 1 .. Len(keys) |-> Line(keys[i], NonZero(let[keys[i]]))]

\* ------------------------------------------------------- query calls
\* the k-grams and letters the queries are called with
QuerySyms == Symbols \cup {txt[i] : i \in 1 .. Len(txt)}
QueryGrams == SeqsOfLen(QuerySyms, order)

NoRet == [op |-> "none", k_gram |-> <<>>, letter |-> 0 - 1, val |-> 0, lines |-> <<>>]
Ret(op, g, l, v) == [op |-> op, k_gram |-> g, letter |-> l, val |-> v, lines |-> <<>>]
RetLines(op, ls) == [op |-> op, k_gram |-> <<>>, letter |-> 0 - 1, val |-> 0, lines |-> ls]

\* every query is called on the built models, once the previous call's result
\* was taken by the caller
TreeKFreq ==
  /\ pc = "built" /\ ret = NoRet
  /\ \E g \in QueryGrams : ret' = Ret("tree.k_freq", g, 0 - 1, Tree_k_freq(tree, g))
  /\ UNCHANGED <<inputs, pc, models, left_idx, ci, node, genvars>>

TreeKFollowFreq ==
  /\ pc = "built" /\ ret = NoRet
  /\ \E g \in QueryGrams, l \in QuerySyms :
       ret' = Ret("tree.k_follow_freq", g, l, Tree_k_follow_freq(tree, g, l))
  /\ UNCHANGED <<inputs, pc, models, left_idx, ci, node, genvars>>

TreeNextChar ==
  /\ pc = "built" /\ ret = NoRet
  /\ \E g \in QueryGrams : \E c \in Tree_next_char(tree, g) :
       ret' = Ret("tree.next_char", g, 0 - 1, c)
  /\ UNCHANGED <<inputs, pc, models, left_idx, ci, node, genvars>>

\* k_freq reading with a default that stores the missing key
TablesKFreqSetdefault ==
  /\ pc = "built" /\ ret = NoRet
  /\ \E g \in QueryGrams :
       /\ k_gram_count' = IF g \in DOMAIN k_gram_count
                           THEN k_gram_count ELSE (g :> 0) @@ k_gram_count
       /\ ret' = Ret("tables.k_freq", g, 0 - 1, k_gram_count'[g])
  /\ UNCHANGED <<inputs, pc, tree, k_gram_letter, k_gram_keys, left_idx, ci, node, genvars>>

TablesKFreq ==
  /\ pc = "built" /\ ret = NoRet
  /\ \E g \in QueryGrams :
       ret' = Ret("tables.k_freq", g, 0 - 1, Tables_k_freq(k_gram_count, g))
  /\ UNCHANGED <<inputs, pc, models, left_idx, ci, node, genvars>>

TablesKFollowFreq ==
  /\ pc = "built" /\ ret = NoRet
  /\ \E g \in QueryGrams, l \in QuerySyms :
       ret' = Ret("tables.k_follow_freq", g, l, Tables_k_follow_freq(k_gram_letter, g, l))
  /\ UNCHANGED <<inputs, pc, models, left_idx, ci, node, genvars>>

TablesNextChar ==
  /\ pc = "built" /\ ret = NoRet
  /\ \E g \in QueryGrams : \E c \in Tables_next_char(k_gram_letter, g) :
       ret' = Ret("tables.next_char", g, 0 - 1, c)
  /\ UNCHANGED <<inputs, pc, models, left_idx, ci, node, genvars>>

TreeToString ==
  /\ pc = "built" /\ ret = NoRet
  /\ ret' = RetLines("tree.to_string", Tree_to_string(tree, order))
  /\ UNCHANGED <<inputs, pc, models, left_idx, ci, node, genvars>>

TablesToString ==
  /\ pc = "built" /\ ret = NoRet
  /\ ret' = RetLines("tables.to_string", Tables_to_string(k_gram_letter, k_gram_keys))
  /\ UNCHANGED <<inputs, pc, models, left_idx, ci, node, genvars>>

\* MarkovModelTree.order and MarkovModelTables.order (both return self._k = k)
Order ==
  /\ pc = "built" /\ ret = NoRet
  /\ ret' = Ret("order", <<>>, 0 - 1, order)
  /\ UNCHANGED <<inputs, pc, models, left_idx, ci, node, genvars>>

\* the caller takes the value a query returned; the models await the next call
TakeResult ==
  /\ pc = "built" /\ ret # NoRet
  /\ ret' = NoRet
  /\ UNCHANGED <<inputs, pc, models, left_idx, ci, node, genvars>>

\* ------------------------------------------------- __main__: the generator
\* state = txt[:args.order]; tj = state
GenStart ==
  /\ pc = "built"
  /\ state' = Slice(txt, 0, order)
  /\ tj' = Slice(txt, 0, order)
  /\ iter' = 0
  /\ ret' = NoRet
  /\ pc' = "gen"
  /\ UNCHANGED <<inputs, models, left_idx, ci, node, output, printed>>

\* the loop run once more than asked
GenRangeOffByOne == trajectory - order + 1

\* range(args.trajectory - args.order): the number of iterations asked for
GenRange == trajectory - order

\* one iteration of "for _ in range(args.trajectory - args.order)"
GenStep ==
  /\ pc = "gen"
  /\ iter < GenRange
  /\ \E c \in Tree_next_char(tree, state) :
       IF c = ERROR
       THEN /\ pc' = "error"
            /\ UNCHANGED <<state, tj, iter>>
       ELSE /\ state' = Slice(state, 1, Len(state)) \o <<c>>
            /\ tj' = tj \o <<c>>
            /\ iter' = iter + 1
            /\ UNCHANGED pc
  /\ UNCHANGED <<inputs, models, left_idx, ci, node, output, printed, ret>>

\* the loop is exhausted: print(tj)
GenDone ==
  /\ pc = "gen"
  /\ iter >= GenRange
  /\ output' = tj
  /\ printed' = TRUE
  /\ pc' = "done"
  /\ UNCHANGED <<inputs, models, left_idx, ci, node, state, tj, iter, ret>>

Build == TreeAddSon \/ TreeDone \/ TablesStep \/ TablesDone
Generate == GenStart \/ GenStep \/ GenDone
Query ==
  \/ TreeKFreq \/ TreeKFollowFreq \/ TreeNextChar
  \/ TablesKFreq \/ TablesKFollowFreq \/ TablesNextChar
  \/ TreeToString \/ TablesToString
  \/ Order \/ TakeResult

Next == Build \/ Generate \/ Query

Spec == Init /\ [][Next]_vars

\* The run is one sequential program: a constructor or the generator loop that
\* can take its next step takes it.  Queries are made at the caller's will.
FairSpec == Spec /\ WF_vars(Build \/ Generate)
\* ============================================================ properties
\* the run has built both models
Built == pc \in {"built", "gen", "done", "error"}

\* the k-gram of w characters at position i of the cyclic corpus
CyclicWindow(text, w, i) == [j \in 1 .. w |-> text[((i + j - 1) % Len(text)) + 1]]
CyclicGrams == {CyclicWindow(txt, order, i) : i \in 0 .. (Len(txt) - 1)}

\* the k-grams each model holds
TreeGrams == {p \in DOMAIN tree : Len(p) = order}
TableGrams == DOMAIN k_gram_count \cup DOMAIN k_gram_letter

ValidInput ==
  txt # <<>> /\ order >= 1 /\ Len(txt) >= order /\ trajectory >= order
InvalidParameters == order < 1 \/ trajectory < order \/ txt = <<>>

TreeFollowSum(g) ==
  SumRange([s \in Codes |-> Tree_k_follow_freq(tree, g, s)], 0, ALPHABET - 1)
TableFollowSum(g) == SumRange(k_gram_letter[g], 0, ALPHABET - 1)

\* C1: for a non-empty corpus and 1 <= k <= len(corpus), once both models are
\* built, k_freq(g) and k_follow_freq(g, s), for each of the 128 symbols s,
\* return the same from the tree model and the table model for every k-gram g
\* either model holds.
C1_CrossModelEquivalence ==
  (Built /\ txt # <<>> /\ order >= 1 /\ order <= Len(txt)) =>
    \A g \in TreeGrams \cup TableGrams :
      /\ Tree_k_freq(tree, g) = Tables_k_freq(k_gram_count, g)
      /\ \A s \in Codes :
           Tree_k_follow_freq(tree, g, s) = Tables_k_follow_freq(k_gram_letter, g, s)

\* C2: in each built model, for every k-gram g it holds, the sum over the 128
\* symbols s of k_follow_freq(g, s) equals k_freq(g); in the table model,
\* sum(_k_gram_letter[g]) = _k_gram_count[g] for every key g.
C2_Conservation ==
  (Built /\ txt # <<>> /\ order >= 1) =>
    /\ \A g \in TreeGrams : TreeFollowSum(g) = Tree_k_freq(tree, g)
    /\ DOMAIN k_gram_letter = DOMAIN k_gram_count
    /\ \A g \in DOMAIN k_gram_count : TableFollowSum(g) = k_gram_count[g]

\* C3: on a valid input (non-empty corpus, k >= 1, len(corpus) >= k, t >= k)
\* the generator loop ends, and when no next_char call failed the trajectory
\* built and printed has exactly t symbols, after exactly t - k samples.
C3_TrajectoryLength ==
  /\ [](ValidInput /\ pc = "done" =>
          Len(tj) = trajectory /\ output = tj /\ iter = trajectory - order)
  /\ ((ValidInput /\ pc = "gen") ~> (pc \in {"done", "error"}))

C3_Witness ==
  /\ ValidInput /\ pc = "done" /\ printed
  /\ trajectory >= order + 2
  /\ Len(output) = trajectory

\* C4: k_freq(g) of either model, for a k-gram g that is no window of the
\* corpus, raises; it returns neither 0 nor any other value.
C4_UnseenKFreqRaises ==
  (/\ ret.op \in {"tree.k_freq", "tables.k_freq"}
   /\ txt # <<>> /\ order >= 1
   /\ ret.k_gram \notin CyclicGrams) => ret.val = ERROR

\* C5: with order < 1, trajectory length < order or an empty corpus, no model
\* gets constructed and nothing is printed, not even the seed.
C5_InvalidRejected ==
  InvalidParameters => (pc \notin {"tables", "built", "gen", "done"} /\ ~printed)

\* the tree constructor finished the window at left_idx: the path it inserted
\* is the k+1 symbols corpus[(left_idx + j) mod n], j = 0..k
TreeInsertsCyclic ==
  (pc = "tree" /\ pc' = "tree" /\ left_idx' = left_idx + 1) =>
    /\ Append(node, TreeKGram[ci]) = CyclicWindow(txt, order + 1, left_idx)
    /\ Append(node, TreeKGram[ci]) \in DOMAIN tree'
    /\ (txt = Abcde /\ order = 3 /\ left_idx = 3) =>
         Append(node, TreeKGram[ci]) = <<100, 101, 97, 98>>

\* the table constructor's iteration at left_idx counted the first k symbols
\* of that window as the key and its last symbol as the successor
TablesCountsCyclic ==
  (pc = "tables" /\ pc' = "tables" /\ left_idx' = left_idx + 1) =>
    LET w == CyclicWindow(txt, order + 1, left_idx)
        key == SubSeq(w, 1, order)
        was == IF key \in DOMAIN k_gram_count THEN k_gram_count[key] ELSE 0
        wasl == IF key \in DOMAIN k_gram_letter THEN k_gram_letter[key][w[order + 1]] ELSE 0
    IN /\ key \in DOMAIN k_gram_count' /\ k_gram_count'[key] = was + 1
       /\ key \in DOMAIN k_gram_letter' /\ k_gram_letter'[key][w[order + 1]] = wasl + 1

\* C6: for 1 <= k <= n and every position i, the window the tree constructor
\* inserts is the k+1 symbols corpus[(i+j) mod n], j = 0..k, and the table
\* constructor's key and successor are its first k symbols and its last;
\* "abcde", k = 3, i = 3 gives "deab".
C6_CyclicWindows ==
  [][(txt # <<>> /\ order >= 1 /\ order <= Len(txt)) =>
       (TreeInsertsCyclic /\ TablesCountsCyclic)]_vars

\* C7: a next_char(g) call of either model that returns, returns a symbol s
\* with k_follow_freq(g, s) > 0; and corpus "abababab", k = 1, t = 6 ends with
\* "ababab" printed, whatever the sampler chose.
C7_SamplingSupport ==
  /\ (ret.op = "tree.next_char" /\ ret.val # ERROR) =>
       Tree_k_follow_freq(tree, ret.k_gram, ret.val) > 0
  /\ (ret.op = "tables.next_char" /\ ret.val # ERROR) =>
       Tables_k_follow_freq(k_gram_letter, ret.k_gram, ret.val) > 0
  /\ (txt = Abababab /\ order = 1 /\ trajectory = 6) =>
       /\ pc # "error"
       /\ pc = "done" => output = Ababab

C7_Witness ==
  /\ ret.op = "tree.next_char" /\ ret.val # ERROR
  /\ Cardinality(Tree_next_char(tree, ret.k_gram)) >= 2
  /\ ret.val = CountKeys(tree[ret.k_gram])[2]

\* C8: once the models are built, no call (order, k_freq, k_follow_freq,
\* next_char, to_string, the generator's next_char calls, a call that raises)
\* changes the tree's nodes and counts or the table model's two mappings.
C8_ReadOnly == [][Built => UNCHANGED models]_vars

C8_Witness ==
  /\ pc = "built"
  /\ ret.op = "tables.k_freq" /\ ret.val = ERROR
  /\ txt # <<>> /\ order >= 1

\* every Node: a child for s is in _neighbours exactly when _letters_count
\* records a positive count for s
NodeInvariant ==
  \A p \in DOMAIN tree : \A s \in QuerySyms :
    (IndexOf(tree[p].neighbours, s) # 0 /\ Append(p, s) \in DOMAIN tree)
      <=> GetLetterCount(tree, p, s) > 0

\* an add_son(ch) call on node raised the count of ch at node by exactly 1
AddSonCountsOne ==
  (pc = "tree" /\ pc' = "tree" /\ <<left_idx, ci>>' # <<left_idx, ci>>) =>
    GetLetterCount(tree', node, TreeKGram[ci]) =
      GetLetterCount(tree, node, TreeKGram[ci]) + 1

\* C9: during and after the tree build every Node satisfies NodeInvariant, and
\* each add_son(s) raises the count of s by exactly 1, child new or not.
C9_NodeInvariant == []NodeInvariant /\ [][AddSonCountsOne]_vars

C9_Witness ==
  /\ pc = "tree" /\ left_idx < Len(txt)
  /\ \E p \in DOMAIN tree : \E s \in QuerySyms :
       GetLetterCount(tree, p, s) >= 2 /\ Len(p) >= 1

\* C10: for 1 <= k < n and t >= k, the generator never fails, and its state is
\* always a k-gram of the cyclic corpus, held by the tree with a successor, and
\* the last k symbols of the trajectory.
C10_GeneratorClosure ==
  (pc \in {"gen", "done", "error"} /\ order >= 1 /\ order < Len(txt)
     /\ trajectory >= order) =>
    /\ pc # "error"
    /\ Len(state) = order
    /\ state \in CyclicGrams
    /\ state \in TreeGrams
    /\ ERROR \notin Tree_next_char(tree, state)
    /\ \E s \in Codes : Tree_k_follow_freq(tree, state, s) > 0
    /\ state = SubSeq(tj, Len(tj) - order + 1, Len(tj))

C10_Witness ==
  /\ pc = "gen" /\ iter >= 2
  /\ order >= 1 /\ order < Len(txt) /\ trajectory >= order
  /\ state # Slice(txt, 0, order)

\* ------------------------------------------- what holds of the three
\* window-dependent statements when the order is below the corpus length
\* (the last window of the tree constructor is cut short only when
\* left_idx + k + 1 is a multiple of the corpus length)
CrossModelEquivalenceBelowLength ==
  (Built /\ txt # <<>> /\ order >= 1 /\ order < Len(txt)) =>
    \A g \in TreeGrams \cup TableGrams :
      /\ Tree_k_freq(tree, g) = Tables_k_freq(k_gram_count, g)
      /\ \A s \in Codes :
           Tree_k_follow_freq(tree, g, s) = Tables_k_follow_freq(k_gram_letter, g, s)

ConservationBelowLength ==
  (Built /\ txt # <<>> /\ order >= 1 /\ order < Len(txt)) =>
    /\ \A g \in TreeGrams : TreeFollowSum(g) = Tree_k_freq(tree, g)
    /\ \A g \in DOMAIN k_gram_count : TableFollowSum(g) = k_gram_count[g]

CyclicWindowsBelowLength ==
  [][(txt # <<>> /\ order >= 1 /\ order < Len(txt)) =>
       (TreeInsertsCyclic /\ TablesCountsCyclic)]_vars
====
